---- MODULE Spec2Model ----
(***************************************************************************)
(* Model of the Signal K "windy-observations" plugin (src/index.js).       *)
(*                                                                         *)
(* The plugin is a set of callbacks run by the Node.js event loop:         *)
(* plugin.start / plugin.stop (called by the host), the two timer          *)
(* callbacks, and the two request callbacks.  Each callback runs to        *)
(* completion and is one action here.  JavaScript values are tagged        *)
(* records, strings are sequences of one-character strings, time is in     *)
(* milliseconds.  Decimal results (radians, kelvin) are exact decimals     *)
(* [v, e] standing for v / 10^e.                                           *)
(***************************************************************************)
EXTENDS Integers, Sequences, FiniteSets

(***************************************************************************)
(* Bounds of the model.                                                    *)
(***************************************************************************)
MaxStarts == 2        \* calls of plugin.start
MaxCycles == 2        \* timer callbacks run
MaxStations == 2      \* station tuples in a well-formed directory listing
MaxUlps == 2          \* doubles next below 180 taken as a longitude

(***************************************************************************)
(* JavaScript values.                                                      *)
(***************************************************************************)
Undefined == [t |-> "undefined"]
Null == [t |-> "null"]
NaN == [t |-> "NaN"]
Num(n) == [t |-> "number", v |-> n, e |-> 0]
Dec(n, k) == [t |-> "number", v |-> n, e |-> k]
Str(s) == [t |-> "string", v |-> s]
Arr(s) == [t |-> "array", v |-> s]

SeqsUpTo(S, n) == UNION {[1..k -> S] : k \in 0..n}

\* String.prototype.toLowerCase on the characters the model uses
LowerChar(c) == IF c = "A" THEN "a" ELSE c
\* toLowerCase, leaving the letter case as it is
toLowerCaseNoop(s) == s

toLowerCase(s) == [i \in DOMAIN s |-> LowerChar(s[i])]

Digits == <<"0", "1", "2", "3", "4", "5", "6", "7", "8", "9">>

RECURSIVE DecimalString(_)
\* the decimal digits of a natural number
DecimalString(n) ==
  IF n < 10
    THEN << Digits[n + 1] >>
    ELSE Append(DecimalString(n \div 10), Digits[(n % 10) + 1])

\* string conversion of a value inside a template literal
TemplateString(val) ==
  CASE val.t = "string" -> val.v
    [] val.t = "undefined" -> <<"u","n","d","e","f","i","n","e","d">>
    [] val.t = "null" -> <<"n","u","l","l">>
    [] val.t = "NaN" -> <<"N","a","N">>
    [] OTHER -> DecimalString(val.v)

\* JavaScript truthiness of a value
Truthy(val) ==
  CASE val.t = "undefined" -> FALSE
    [] val.t = "null" -> FALSE
    [] val.t = "NaN" -> FALSE
    [] val.t = "string" -> Len(val.v) > 0
    [] val.t = "number" -> val.v # 0
    [] OTHER -> TRUE

(***************************************************************************)
(* options.excludeList.split(/\s*,\s*/)                                    *)
(***************************************************************************)
IsSpace(c) == c = " "

RECURSIVE WsRun(_, _)
\* number of consecutive whitespace characters of s from position q on
WsRun(s, q) ==
  IF q <= Len(s) /\ IsSpace(s[q]) THEN 1 + WsRun(s, q + 1) ELSE 0

\* position after a match of \s*,\s* starting at q, or 0 when there is none
MatchEnd(s, q) ==
  LET c == q + WsRun(s, q) IN
    IF c <= Len(s) /\ s[c] = ","
      THEN c + 1 + WsRun(s, c + 1)
      ELSE 0

RECURSIVE SplitFrom(_, _, _)
\* p: start of the current piece, q: position the separator is searched at
SplitFrom(s, p, q) ==
  IF q > Len(s)
    THEN << SubSeq(s, p, Len(s)) >>
    ELSE LET e == MatchEnd(s, q) IN
      IF e = 0
        THEN SplitFrom(s, p, q + 1)
        ELSE << SubSeq(s, p, q - 1) >> \o SplitFrom(s, e, e)

Split(s) == SplitFrom(s, 1, 1)

\* Includes, comparing strings without regard to letter case
IncludesIgnoreCase(arr, val) ==
  \E i \in DOMAIN arr :
    \/ arr[i] = val
    \/ /\ arr[i].t = "string"
       /\ val.t = "string"
       /\ toLowerCase(arr[i].v) = toLowerCase(val.v)

\* Array.prototype.includes (SameValueZero; NaN is never a station here)
Includes(arr, val) == \E i \in DOMAIN arr : arr[i] = val

(***************************************************************************)
(* Program constants.                                                      *)
(***************************************************************************)
observationsKey == "observations.windy"
pluginId == "windy-observations"
checkEveryNMinutes == 15
WarmupDelay == 5000
IntervalDelay == checkEveryNMinutes * 60 * 1000
Zoom == 8
Stride == 7

(***************************************************************************)
(* deg2num.  Latitudes are whole degrees; Mercator[lat] is                 *)
(* (1 - asinh(tan(lat_rad)) / pi) / 2 in millionths.                       *)
(*                                                                         *)
(* Longitudes are doubles: Deg(d) is the whole number d, Below180(k) is    *)
(* the k-th double below 180, that is 180 - k * 2^-45 (doubles of          *)
(* [128, 256) are 2^-45 apart).  On whole degrees every operation of       *)
(* (lon_deg + 180.0) / 360.0 * n is computed as in exact arithmetic as far *)
(* as the integer part goes.                                               *)
(***************************************************************************)
Deg(d) == [deg |-> d, below |-> 0]
Below180(k) == [deg |-> 180, below |-> k]

\* k / 2 rounded to the nearest integer, a tie to the even one
HalfToEven(k) ==
  IF k % 2 = 0 THEN k \div 2
  ELSE IF ((k - 1) \div 2) % 2 = 0 THEN (k - 1) \div 2 ELSE (k + 1) \div 2

\* lon_deg + 180.0 in double arithmetic (round to nearest, ties to even):
\* doubles of [256, 512) are 2^-44 apart, so 360 - k * 2^-45 becomes
\* 360 - HalfToEven(k) * 2^-44; `below' of the sum counts in 2^-44
PlusHalfTurn(lon_deg) ==
  [deg |-> lon_deg.deg + 180, below |-> HalfToEven(lon_deg.below)]

Mercator ==
  [lat \in {-85, -60, -47, 0, 47, 60, 85} |->
    CASE lat = -85 -> 998362
      [] lat = -60 -> 709600
      [] lat = -47 -> 648274
      [] lat = 0 -> 500000
      [] lat = 47 -> 351726
      [] lat = 60 -> 290400
      [] lat = 85 -> 1638]

RECURSIVE Pow2(_)
Pow2(k) == IF k = 0 THEN 1 ELSE 2 * Pow2(k - 1)

\* parseInt of the number a / b (b > 0): the digits before the decimal point
parseInt(a, b) == IF a >= 0 THEN a \div b ELSE -((-a) \div b)

\* parseInt(sum / 360.0 * n).  A sum j * 2^-44 below 360 (j > 0) has the
\* quotient 1 - j * (512 / 360) * 2^-53, which rounds to a double below 1
\* (doubles of [1/2, 1) are 2^-53 apart), and the product with n is exact:
\* the number lies strictly between n - 1 and n.
XTile(sum, n) ==
  IF sum.below = 0
    THEN parseInt(sum.deg * n, 360)
    ELSE parseInt(sum.deg * n - 1, 360)

deg2num(lat_deg, lon_deg, zoom) ==
  LET n == Pow2(zoom) IN
    [x |-> XTile(PlusHalfTurn(lon_deg), n),
     y |-> parseInt(Mercator[lat_deg] * n, 1000000)]

(***************************************************************************)
(* Inputs: what the host and the network can hand to the plugin.           *)
(***************************************************************************)
\* options.excludeList: absent, "", "A", "A , a"
ExcludeLists ==
  {Undefined,
   Str(<<>>),
   Str(<<"A">>),
   Str(<<"A", " ", ",", " ", "a">>)}

StationIds == {Str(<<"A">>), Str(<<"a">>)}
Widths == {4, 7}
Filler == Num(1)

\* what app.getSelfPath('navigation.position') can return
Coord(lat, lon) == [t |-> "object", latitude |-> lat, longitude |-> lon]
Positions ==
  {Undefined,
   [t |-> "object", value |-> Undefined],
   [t |-> "object", value |-> Coord(47, Deg(-122))],
   [t |-> "object", value |-> Coord(0, Deg(0))]}

\* positions for the tile computation alone
TileLatitudes == {-85, -60, 0, 60, 85}
TileLongitudes ==
  {Deg(d) : d \in {-181, -180, -179, -122, 0, 179}}
    \cup {Below180(k) : k \in 1..MaxUlps}
TilePositions ==
  {[t |-> "object", value |-> Coord(lat, lon)] :
     lat \in TileLatitudes, lon \in TileLongitudes}

\* the flat listing of the tuples of width w whose field 0 is ids[i]
Listing(w, ids) ==
  [k \in 1..(w * Len(ids)) |->
    IF (k - 1) % w = 0 THEN ids[((k - 1) \div w) + 1] ELSE Filler]

DirObject(items, data) == [t |-> "object", items |-> items, data |-> data]

WellFormedDirBodies ==
  {DirObject(Num(w), Arr(Listing(w, ids))) :
     w \in Widths, ids \in SeqsUpTo(StationIds, MaxStations)}

MalformedDirBodies ==
  {Undefined,
   DirObject(Undefined, Undefined),
   DirObject(Undefined, Arr(<<Str(<<"A">>)>>)),
   DirObject(Num(0), Arr(<<Str(<<"A">>)>>)),
   DirObject(Num(0), Arr(<<>>)),
   DirObject(Num(1), Arr(<<Num(0)>>)),
   DirObject(Num(2), Arr(<<Str(<<"A">>), Filler, Str(<<"a">>)>>))}

StatusCodes == {200, 201, 404}

Response(err, code, body) == [error |-> err, statusCode |-> code, body |-> body]

DirResponses ==
  {Response(TRUE, 0, Undefined)}
    \cup {Response(FALSE, c, Undefined) : c \in StatusCodes \ {200}}
    \cup {Response(FALSE, 200, b) : b \in WellFormedDirBodies \cup MalformedDirBodies}

\* the dir and temp fields of a station body; Undefined is a missing field
DirTemps ==
  {<<Num(90), Num(20)>>, <<Null, Null>>,
   <<Undefined, Num(20)>>, <<Num(90), Undefined>>}

StationObject(dir, temp) ==
  [t |-> "object", name |-> Str(<<"T">>), time |-> Num(1),
   lat |-> Num(47), lon |-> Num(-122), wind |-> Num(5), gust |-> Num(7),
   dir |-> dir, temp |-> temp]

StationBodies ==
  {Undefined} \cup {StationObject(dt[1], dt[2]) : dt \in DirTemps}

StationResponses ==
  {Response(TRUE, 0, Undefined)}
    \cup {Response(FALSE, 404, Undefined)}
    \cup {Response(FALSE, 201, StationObject(Num(90), Num(20)))}
    \cup {Response(FALSE, 200, b) : b \in StationBodies}

(***************************************************************************)
(* State.                                                                  *)
(***************************************************************************)
VARIABLES
  excludedStations,  \* the plugin's variable (index.js line 26)
  timers,            \* pending timers of the event loop: [gen, kind, due,
                     \* fired], fired counting the runs of its callback
  now,               \* clock of the event loop, ms
  dirRequests,       \* directory requests in flight
  stationRequests,   \* station detail requests in flight
  published,         \* history: the requests whose callback called
                     \* app.handleMessage: [cycle, call, station, path],
                     \* path being the station segment of the paths sent
  alive,             \* the Node.js process is running
  starts,            \* history: calls of plugin.start
  startTime,         \* history: time of the last plugin.start
  stopped,           \* history: plugin.stop was called after the last start
  cycles,            \* history: timer callbacks run
  lastOp             \* history: the step taken last; for a callback its
                     \* outcome, the arguments it passed to
                     \* retrieveStationData and to app.handleMessage

vars == <<excludedStations, timers, now, dirRequests,
          stationRequests, published, alive, starts, startTime,
          stopped, cycles, lastOp>>

Init ==
  /\ excludedStations = Undefined
  /\ timers = {}
  /\ now = 0
  /\ dirRequests = {}
  /\ stationRequests = {}
  /\ published = {}
  /\ alive = TRUE
  /\ starts = 0
  /\ startTime = 0
  /\ stopped = FALSE
  /\ cycles = 0
  /\ lastOp = [op |-> "init"]

\* an exception that reaches the event loop ends the process unless the host
\* installed an uncaughtException handler; a loop that never ends blocks it
AfterOutcome(outcome) ==
  CASE outcome = "ok" -> {TRUE}
    [] outcome = "diverges" -> {FALSE}
    [] OTHER -> BOOLEAN

(***************************************************************************)
(* plugin.start and plugin.stop                                            *)
(***************************************************************************)
ParseExcludeList(excludeList) ==
  IF Truthy(excludeList)
    THEN Arr([i \in DOMAIN Split(excludeList.v) |-> Str(Split(excludeList.v)[i])])
    ELSE Arr(<<>>)

\* StartTimers, running the first cycle without the warm-up delay
StartTimersAtOnce(gen, t) ==
  {[gen |-> gen, kind |-> "timeout", due |-> t, fired |-> 0],
   [gen |-> gen, kind |-> "interval", due |-> t + IntervalDelay, fired |-> 0]}

StartTimers(gen, t) ==
  {[gen |-> gen, kind |-> "timeout", due |-> t + WarmupDelay, fired |-> 0],
   [gen |-> gen, kind |-> "interval", due |-> t + IntervalDelay, fired |-> 0]}

Start(excludeList) ==
  /\ alive
  /\ starts < MaxStarts
  /\ excludedStations' = ParseExcludeList(excludeList)
  /\ timers' = timers \cup StartTimers(starts + 1, now)
  /\ starts' = starts + 1
  /\ startTime' = now
  /\ stopped' = FALSE
  /\ lastOp' = [op |-> "start"]
  /\ UNCHANGED <<now, dirRequests, stationRequests, published, alive, cycles>>

\* Stop, emptying the exclusion list
StopClearsList ==
  /\ alive
  /\ starts > 0
  /\ ~stopped
  /\ stopped' = TRUE
  /\ excludedStations' = Arr(<<>>)
  /\ lastOp' = [op |-> "stop"]
  /\ UNCHANGED <<timers, now, dirRequests,
                 stationRequests, published, alive, starts,
                 startTime, cycles>>

Stop ==
  /\ alive
  /\ starts > 0
  /\ ~stopped
  /\ stopped' = TRUE
  /\ lastOp' = [op |-> "stop"]
  /\ UNCHANGED <<excludedStations, timers, now, dirRequests,
                 stationRequests, published, alive, starts,
                 startTime, cycles>>

(***************************************************************************)
(* The timer callbacks: checkAndPublishObservations, retrieveObservations  *)
(***************************************************************************)
TileUrl(zoom, tiles) ==
  [path |-> "pois/stations/tiles", zoom |-> zoom, x |-> tiles.x, y |-> tiles.y]

\* the request retrieveObservations issues
retrieveObservations(lat, lng, cyc) ==
  [cycle |-> cyc, url |-> TileUrl(Zoom, deg2num(lat, lng, Zoom))]

\* checkAndPublishObservations, without the test of the position
checkAndPublishObservationsUnguarded(pos, cyc) ==
  IF pos.t # "object" \/ pos.value.t # "object"
    THEN [outcome |-> "TypeError", reqs |-> {}]
    ELSE [outcome |-> "ok",
          reqs |-> {retrieveObservations(pos.value.latitude,
                                         pos.value.longitude, cyc)}]

\* outcome and requests of one run of checkAndPublishObservations
checkAndPublishObservations(pos, cyc) ==
  IF ~Truthy(pos)
    THEN [outcome |-> "ok", reqs |-> {}]
    ELSE IF pos.value.t # "object"
      THEN [outcome |-> "TypeError", reqs |-> {}]
      ELSE [outcome |-> "ok",
            reqs |-> {retrieveObservations(pos.value.latitude,
                                           pos.value.longitude, cyc)}]

\* Rearm, with the recurring timer created by setTimeout
RearmNever(tm, t) == {}

\* setInterval re-arms its timer, setTimeout does not
Rearm(tm, t) ==
  IF tm.kind = "interval"
    THEN {[tm EXCEPT !.due = t + IntervalDelay, !.fired = tm.fired + 1]}
    ELSE {}

\* TimerFire, skipping the cycle while requests of earlier cycles are in flight
TimerFireSkipIfBusy(tm, pos) ==
  /\ alive
  /\ cycles < MaxCycles
  /\ tm \in timers
  /\ tm.due <= now
  /\ \A other \in timers : other.due >= tm.due
  /\ LET run == IF dirRequests = {} /\ stationRequests = {}
                  THEN checkAndPublishObservations(pos, cycles + 1)
                  ELSE [outcome |-> "ok", reqs |-> {}]
     IN
       /\ dirRequests' = dirRequests \cup run.reqs
       /\ alive' \in AfterOutcome(run.outcome)
       /\ lastOp' = [op |-> "tick", outcome |-> run.outcome]
  /\ timers' = (timers \ {tm}) \cup Rearm(tm, now)
  /\ cycles' = cycles + 1
  /\ UNCHANGED <<excludedStations, now, stationRequests, published,
                 starts, startTime, stopped>>

\* pos: what app.getSelfPath returns to this run
TimerFire(tm, pos) ==
  /\ alive
  /\ cycles < MaxCycles
  /\ tm \in timers
  /\ tm.due <= now
  /\ \A other \in timers : other.due >= tm.due
  /\ LET run == checkAndPublishObservations(pos, cycles + 1) IN
       /\ dirRequests' = dirRequests \cup run.reqs
       /\ alive' \in AfterOutcome(run.outcome)
       /\ lastOp' = [op |-> "tick", outcome |-> run.outcome]
  /\ timers' = (timers \ {tm}) \cup Rearm(tm, now)
  /\ cycles' = cycles + 1
  /\ UNCHANGED <<excludedStations, now, stationRequests, published,
                 starts, startTime, stopped>>

\* time passes until the next timer is due
Advance ==
  /\ alive
  /\ cycles < MaxCycles
  /\ timers # {}
  /\ \A tm \in timers : tm.due > now
  /\ \E tm \in timers :
       /\ \A other \in timers : other.due >= tm.due
       /\ now' = tm.due
  /\ lastOp' = [op |-> "advance"]
  /\ UNCHANGED <<excludedStations, timers, dirRequests,
                 stationRequests, published, alive, starts, startTime,
                 stopped, cycles>>

(***************************************************************************)
(* retrieveStationData and the directory callback                          *)
(***************************************************************************)
StationUrl(station) ==
  [path |-> "pois/stations", station |-> TemplateString(station)]

\* the requests one call of retrieveStationData issues (none or one)
\* cyc, call: the cycle and the loop iteration the call is made in
retrieveStationData(station, cyc, call) ==
  IF Includes(excludedStations.v, station)
    THEN {}
    ELSE {[cycle |-> cyc, call |-> call, station |-> station,
           url |-> StationUrl(station)]}

\* stations[k] for a zero-based k
Element(stations, k) ==
  IF k + 1 \in DOMAIN stations THEN stations[k + 1] ELSE Undefined

RECURSIVE FanOut(_, _, _, _, _)
\* the loop "for (let i=0;i<stationCount;i++)" with stationCount =
\* stations.length / items, from iteration i on
FanOut(stations, items, i, cyc, acc) ==
  IF i * items < Len(stations)
    THEN LET station == Element(stations, i * Stride)
             new == retrieveStationData(station, cyc, i)
         IN FanOut(stations, items, i + 1, cyc,
                   [calls |-> Append(acc.calls, station),
                    reqs |-> acc.reqs \cup new])
    ELSE acc

NoCalls == [calls |-> <<>>, reqs |-> {}]

\* log: what the callback hands to app.debug itself
DirResult(outcome, acc) ==
  [outcome |-> outcome, calls |-> acc.calls, reqs |-> acc.reqs, log |-> ""]

DirFailure ==
  [outcome |-> "ok", calls |-> <<>>, reqs |-> {},
   log |-> "Error retrieving stations"]

\* DirCallback, taking every response without transport error as a success
DirCallbackAnyStatus(resp, cyc) ==
  IF ~resp.error
    THEN
      CASE resp.body.t # "object" ->
             DirResult("TypeError", NoCalls)
        [] resp.body.t = "object" /\ resp.body.data.t # "array" ->
             DirResult("TypeError", NoCalls)
        [] OTHER ->
             DirResult("ok", FanOut(resp.body.data.v, resp.body.items.v, 0,
                                    cyc, NoCalls))
    ELSE DirFailure

\* the callback of the directory request
DirCallback(resp, cyc) ==
  IF ~resp.error /\ resp.statusCode = 200
    THEN
      CASE resp.body.t # "object" ->
             DirResult("TypeError", NoCalls)
        [] resp.body.t = "object" /\ resp.body.data.t # "array" ->
             DirResult("TypeError", NoCalls)
        [] OTHER ->
             LET stations == resp.body.data.v
                 items == resp.body.items
             IN CASE items.t # "number" ->
                       DirResult("ok", NoCalls)
                  [] items.t = "number" /\ items.v = 0 ->
                       IF Len(stations) = 0
                         THEN DirResult("ok", NoCalls)
                         ELSE DirResult("diverges", NoCalls)
                  [] items.t = "number" /\ items.v < 0 ->
                       DirResult("ok", NoCalls)
                  [] OTHER ->
                       DirResult("ok", FanOut(stations, items.v, 0, cyc, NoCalls))
    ELSE DirFailure

DirResponse(req, resp) ==
  /\ alive
  /\ req \in dirRequests
  /\ LET run == DirCallback(resp, req.cycle) IN
       /\ stationRequests' = stationRequests \cup run.reqs
       /\ alive' \in AfterOutcome(run.outcome)
       /\ lastOp' = [op |-> "dirResponse", outcome |-> run.outcome,
                     calls |-> run.calls, log |-> run.log]
  /\ dirRequests' = dirRequests \ {req}
  /\ UNCHANGED <<excludedStations, timers, now, published, starts,
                 startTime, stopped, cycles>>

(***************************************************************************)
(* The station callback                                                    *)
(***************************************************************************)
\* value * 0.0174533 and value + 273.15 for a value that is not null
Times(value, m, k) ==
  IF value.t = "number" THEN Dec(value.v * m, value.e + k) ELSE NaN

PlusHundredths(value, h) ==
  IF value.t = "number" THEN Dec(value.v * 100 + h, 2) ELSE NaN

degreesToRadians(value) ==
  IF value = Null THEN Null ELSE Times(value, 174533, 7)

celsiusToKelvin(value) ==
  IF value = Null THEN Null ELSE PlusHundredths(value, 27315)

Path(stationId, leaf) ==
  [key |-> observationsKey, station |-> stationId, leaf |-> leaf]

InfoUrl(stationId) ==
  Str(<<"https://www.windy.com/station/">> \o toLowerCase(stationId))

Values(stationId, data) ==
  << [path |-> Path(stationId, "name"), value |-> data.name],
     [path |-> Path(stationId, "date"), value |-> data.time],
     [path |-> Path(stationId, "position"),
      value |-> Coord(data.lat, data.lon)],
     [path |-> Path(stationId, "wind.speed"), value |-> data.wind],
     [path |-> Path(stationId, "wind.gust"), value |-> data.gust],
     [path |-> Path(stationId, "wind.direction"),
      value |-> degreesToRadians(data.dir)],
     [path |-> Path(stationId, "temperature"),
      value |-> celsiusToKelvin(data.temp)],
     [path |-> Path(stationId, "url"), value |-> InfoUrl(stationId)] >>

\* the arguments of app.handleMessage
Message(values) ==
  [id |-> pluginId, delta |-> [updates |-> << [values |-> values] >>]]

\* StationCallback, taking every response without transport error as a success
StationCallbackAnyStatus(req, resp) ==
  IF ~resp.error
    THEN
      IF req.station.t # "string" \/ resp.body.t # "object"
        THEN [outcome |-> "TypeError", msgs |-> <<>>]
        ELSE [outcome |-> "ok",
              msgs |-> << Message(Values(toLowerCase(req.station.v),
                                         resp.body)) >>]
    ELSE [outcome |-> "ok", msgs |-> <<>>]

\* the callback of a station request
StationCallback(req, resp) ==
  IF ~resp.error /\ resp.statusCode = 200
    THEN
      IF req.station.t # "string" \/ resp.body.t # "object"
        THEN [outcome |-> "TypeError", msgs |-> <<>>]
        ELSE [outcome |-> "ok",
              msgs |-> << Message(Values(toLowerCase(req.station.v),
                                         resp.body)) >>]
    ELSE [outcome |-> "ok", msgs |-> <<>>]

\* StationResponse, holding a result back while a sibling request of the
\* cycle is still in flight
StationResponseAfterSiblings(req, resp) ==
  /\ alive
  /\ req \in stationRequests
  /\ LET run == StationCallback(req, resp)
         held == \E r \in stationRequests \ {req} : r.cycle = req.cycle
         msgs == IF held THEN <<>> ELSE run.msgs
     IN
       /\ published' = published \cup
            {[cycle |-> req.cycle, call |-> req.call, station |-> req.station,
              path |-> msgs[i].delta.updates[1].values[1].path.station]
               : i \in DOMAIN msgs}
       /\ alive' \in AfterOutcome(run.outcome)
       /\ lastOp' = [op |-> "stationResponse", outcome |-> run.outcome,
                     msgs |-> msgs]
  /\ stationRequests' = stationRequests \ {req}
  /\ UNCHANGED <<excludedStations, timers, now, dirRequests,
                 starts, startTime, stopped, cycles>>

StationResponse(req, resp) ==
  /\ alive
  /\ req \in stationRequests
  /\ LET run == StationCallback(req, resp) IN
       /\ published' = published \cup
            {[cycle |-> req.cycle, call |-> req.call, station |-> req.station,
              path |-> run.msgs[i].delta.updates[1].values[1].path.station]
               : i \in DOMAIN run.msgs}
       /\ alive' \in AfterOutcome(run.outcome)
       /\ lastOp' = [op |-> "stationResponse", outcome |-> run.outcome,
                     msgs |-> run.msgs]
  /\ stationRequests' = stationRequests \ {req}
  /\ UNCHANGED <<excludedStations, timers, now, dirRequests,
                 starts, startTime, stopped, cycles>>

(***************************************************************************)
(* The specification                                                       *)
(***************************************************************************)
Next ==
  \/ \E excludeList \in ExcludeLists : Start(excludeList)
  \/ Stop
  \/ \E tm \in timers, pos \in Positions : TimerFire(tm, pos)
  \/ Advance
  \/ \E req \in dirRequests, resp \in DirResponses : DirResponse(req, resp)
  \/ \E req \in stationRequests, resp \in StationResponses :
       StationResponse(req, resp)

Spec == Init /\ [][Next]_vars

\* the timer callbacks alone, over the positions of the tile computation
TileNext ==
  \/ Start(Undefined)
  \/ Advance
  \/ \E tm \in timers, pos \in TilePositions : TimerFire(tm, pos)

TileSpec == Init /\ [][TileNext]_vars

(***************************************************************************)
(* Steps, as seen from a pair of states                                    *)
(***************************************************************************)
\* a timer callback ran
TickStep == cycles' = cycles + 1

\* the timers whose callback ran in this step
FiredTimers == {tm \in timers : tm \notin timers'}

\* requests issued and requests answered in this step
NewDirRequests == dirRequests' \ dirRequests
NewStationRequests == stationRequests' \ stationRequests
AnsweredDirRequests == dirRequests \ dirRequests'
AnsweredStationRequests == stationRequests \ stationRequests'
NewlyPublished == published' \ published

Callbacks == {"tick", "dirResponse", "stationResponse"}

(***************************************************************************)
(* C1: once plugin.stop has been called (and plugin.start not again), no   *)
(* timer callback runs and no directory request is issued.                 *)
(***************************************************************************)
C1_NoCycleAfterStop ==
  [][stopped /\ stopped' => ~TickStep /\ NewDirRequests = {}]_vars

(***************************************************************************)
(* C2: in a directory callback, a call of retrieveStationData issues no    *)
(* request when its argument is an element of excludedStations (same       *)
(* string, same letter case) and exactly one request, for that argument,   *)
(* otherwise; and a publish always answers a request that was issued.      *)
(***************************************************************************)
ExactMember(station) ==
  \E k \in DOMAIN excludedStations.v : excludedStations.v[k] = station

RequestsOfCall(i) == {r \in NewStationRequests : r.call = i}

C2_ExclusionFilter ==
  [][/\ AnsweredDirRequests # {} =>
          /\ \A i \in DOMAIN lastOp'.calls :
               IF ExactMember(lastOp'.calls[i])
                 THEN RequestsOfCall(i - 1) = {}
                 ELSE /\ Cardinality(RequestsOfCall(i - 1)) = 1
                      /\ \A r \in RequestsOfCall(i - 1) :
                           r.station = lastOp'.calls[i]
          /\ \A r \in NewStationRequests : r.call + 1 \in DOMAIN lastOp'.calls
     /\ \A p \in NewlyPublished :
          \E r \in AnsweredStationRequests :
            r.cycle = p.cycle /\ r.call = p.call /\ r.station = p.station
    ]_vars

\* a directory callback met "A" excluded and "a", which differs in case only:
\* "a" was requested and "A" was not
C2_Witness ==
  /\ lastOp.op = "dirResponse"
  /\ \E i, j \in DOMAIN lastOp.calls :
       /\ lastOp.calls[i] = Str(<<"A">>)
       /\ lastOp.calls[j] = Str(<<"a">>)
  /\ excludedStations = Arr(<< Str(<<"A">>) >>)
  /\ \E r \in stationRequests : r.station = Str(<<"a">>)
  /\ \A r \in stationRequests : r.station # Str(<<"A">>)

(***************************************************************************)
(* C3: a successful directory response with tuple width W and a listing    *)
(* of N * W fields makes the callback pass exactly the N identifiers       *)
(* listing[i * W], i = 0 .. N-1, to retrieveStationData, in this order.    *)
(***************************************************************************)
Identifiers(listing, w) ==
  [i \in 1..(Len(listing) \div w) |-> listing[(i - 1) * w + 1]]

C3_DecodeByWidth ==
  [][\A resp \in DirResponses :
       /\ ~resp.error
       /\ resp.statusCode = 200
       /\ resp.body \in WellFormedDirBodies
       /\ \E req \in dirRequests : DirResponse(req, resp)
       => lastOp'.calls = Identifiers(resp.body.data.v, resp.body.items.v)
    ]_vars

(***************************************************************************)
(* C4: no callback raises an exception (or fails to return), whatever the  *)
(* position provider and the network hand to it.                           *)
(***************************************************************************)
C4_NoException ==
  lastOp.op \in Callbacks => lastOp.outcome = "ok" /\ alive

(***************************************************************************)
(* C5: a timer callback that finds no position issues no request and       *)
(* publishes nothing, returns normally, and leaves the timers as any other *)
(* firing does (a recurring timer is due again 15 minutes later).          *)
(***************************************************************************)
C5_SkipWithoutPosition ==
  [][\A tm \in timers :
       TimerFire(tm, Undefined) =>
         /\ dirRequests' = dirRequests
         /\ stationRequests' = stationRequests
         /\ published' = published
         /\ lastOp'.outcome = "ok"
         /\ alive'
         /\ timers \ {tm} \subseteq timers'
         /\ tm.kind = "interval" =>
              \E again \in timers' \ timers :
                /\ again.kind = "interval"
                /\ again.gen = tm.gen
                /\ again.due = now + 900000
    ]_vars

\* the first timer callback found no position: nothing is in flight and the
\* recurring timer is still pending
C5_Witness ==
  /\ lastOp.op = "tick"
  /\ lastOp.outcome = "ok"
  /\ cycles = 1
  /\ dirRequests = {}
  /\ \E tm \in timers : tm.kind = "interval" /\ tm.due > now

(***************************************************************************)
(* C6: after a single plugin.start, plugin.start itself runs no cycle, no  *)
(* timer callback runs and no directory request is issued earlier than 5 s *)
(* after the start, and the recurring timer never fires while the warm-up  *)
(* timer is still pending.                                                 *)
(***************************************************************************)
C6_NothingBeforeWarmup ==
  [][starts' = 1 =>
       /\ starts = 0 => ~TickStep /\ NewDirRequests = {}
       /\ TickStep \/ NewDirRequests # {} => now >= startTime + 5000
       /\ \A tm \in FiredTimers :
            tm.kind = "interval" => \A w \in timers : w.kind # "timeout"
    ]_vars

\* the recurring timer has just fired, 15 minutes after the only start, and
\* this second cycle has its directory request in flight
C6_Witness ==
  /\ starts = 1
  /\ lastOp.op = "tick"
  /\ cycles = 2
  /\ now = startTime + 900000
  /\ \E r \in dirRequests : r.cycle = 2

(***************************************************************************)
(* C7: after a single plugin.start, a timer callback that finds a usable   *)
(* position issues exactly one directory request, for the zoom-8 tile of   *)
(* that position; the warm-up timer runs once and is gone, and the k-th    *)
(* run of the recurring timer is due k * 15 minutes after the start.       *)
(***************************************************************************)
UsablePositions == {pos \in Positions : pos.t = "object" /\ pos.value.t = "object"}

\* the slippy-map tiles of the two positions of the model
ExpectedTile(pos) ==
  IF pos.value = Coord(0, Deg(0))
    THEN [path |-> "pois/stations/tiles", zoom |-> 8, x |-> 128, y |-> 128]
    ELSE [path |-> "pois/stations/tiles", zoom |-> 8, x |-> 41, y |-> 90]

C7_OneCyclePerFiring ==
  [][starts = 1 /\ starts' = 1 =>
       /\ \A tm \in timers, pos \in UsablePositions :
            TimerFire(tm, pos) =>
              /\ \E r \in NewDirRequests :
                   /\ NewDirRequests = {r}
                   /\ r.url = ExpectedTile(pos)
              /\ AnsweredDirRequests = {}
              /\ NewStationRequests = {}
       /\ TickStep => Cardinality(FiredTimers) = 1
       /\ \A tm \in timers' :
            IF tm.kind = "interval"
              THEN tm.due = startTime + (tm.fired + 1) * 900000
              ELSE tm.fired = 0 /\ tm.due = startTime + 5000
       /\ Cardinality({tm \in timers' : tm.kind = "interval"}) = 1
       /\ {tm \in timers' : tm.kind = "timeout"}
            \subseteq {tm \in timers : tm.kind = "timeout"}
       /\ \A tm \in FiredTimers : tm.kind = "timeout" =>
            \A w \in timers' : w.kind # "timeout"
    ]_vars

\* both timers of the only start have fired with a position available, the
\* position having changed in between: two directory requests are in flight
C7_Witness ==
  /\ starts = 1
  /\ cycles = 2
  /\ lastOp.op = "tick"
  /\ \E r1, r2 \in dirRequests :
       r1.cycle = 1 /\ r2.cycle = 2 /\ r1.url # r2.url
  /\ \E tm \in timers : tm.kind = "interval" /\ tm.fired = 1

(***************************************************************************)
(* C8: every call of app.handleMessage carries the plugin id and one       *)
(* update with 8 path/value pairs, in the order name, date, position,      *)
(* wind.speed, wind.gust, wind.direction, temperature, url; every path is  *)
(* observations.windy.<identifier of the answered request, lower-cased>,   *)
(* and the url value ends in the same lower-cased identifier.              *)
(***************************************************************************)
Leaves ==
  <<"name", "date", "position", "wind.speed", "wind.gust", "wind.direction",
    "temperature", "url">>

IsLowerCaseOf(l, s) ==
  /\ Len(l) = Len(s)
  /\ \A k \in DOMAIN s : l[k] = (IF s[k] = "A" THEN "a" ELSE s[k])

C8_PublishShape ==
  [][\A req \in AnsweredStationRequests :
       \A i \in DOMAIN lastOp'.msgs :
         LET m == lastOp'.msgs[i] IN
           /\ m.id = "windy-observations"
           /\ Len(m.delta.updates) = 1
           /\ LET values == m.delta.updates[1].values IN
                /\ Len(values) = 8
                /\ \A k \in 1..8 :
                     /\ values[k].path.key = "observations.windy"
                     /\ values[k].path.leaf = Leaves[k]
                     /\ IsLowerCaseOf(values[k].path.station, req.station.v)
                /\ values[8].value.t = "string"
                /\ Len(values[8].value.v) = 1 + Len(req.station.v)
                /\ values[8].value.v[1] = "https://www.windy.com/station/"
                /\ IsLowerCaseOf(Tail(values[8].value.v), req.station.v)
    ]_vars

\* the only publish so far answered the request for station "A" and went to
\* the paths of "a"
C8_Witness ==
  /\ lastOp.op = "stationResponse"
  /\ Len(lastOp.msgs) = 1
  /\ Cardinality(published) = 1
  /\ \E p \in published : p.station = Str(<<"A">>) /\ p.path = <<"a">>

(***************************************************************************)
(* C9: a publish carries null as wind direction (temperature) when the     *)
(* dir (temp) field of the response is null or missing, and a number when  *)
(* the field is a number.                                                  *)
(***************************************************************************)
PreservesAbsence(input, output) ==
  /\ input \in {Null, Undefined} => output = Null
  /\ input.t = "number" => output.t = "number"
  /\ output.t = "number" => input.t = "number"

C9_NullPreserved ==
  [][\A resp \in StationResponses :
       /\ resp.body.t = "object"
       /\ \E req \in stationRequests : StationResponse(req, resp)
       => \A i \in DOMAIN lastOp'.msgs :
            LET values == lastOp'.msgs[i].delta.updates[1].values IN
              /\ PreservesAbsence(resp.body.dir, values[6].value)
              /\ PreservesAbsence(resp.body.temp, values[7].value)
    ]_vars

(***************************************************************************)
(* C10: the callback of a station request publishes exactly when the       *)
(* response has no transport error and a 2xx status code.                  *)
(***************************************************************************)
C10_PublishIffSuccess ==
  [][\A resp \in StationResponses :
       (\E req \in stationRequests : StationResponse(req, resp))
       => (NewlyPublished # {} <=> ~resp.error /\ resp.statusCode \in 200..299)
    ]_vars

(***************************************************************************)
(* C11: a directory response with a transport error or a non-success       *)
(* status makes the callback return normally without calling               *)
(* retrieveStationData; station requests are issued only by the directory  *)
(* callback of their own cycle, publishes only answer station requests,    *)
(* and a directory request is issued only by a timer callback, so the      *)
(* failed cycle has no station request, no publish and no second           *)
(* directory request.                                                      *)
(***************************************************************************)
DirFailed(resp) == resp.error \/ resp.statusCode \notin 200..299

C11_DirFailureYieldsNothing ==
  [][/\ \A resp \in DirResponses :
          /\ DirFailed(resp)
          /\ \E req \in dirRequests : DirResponse(req, resp)
          => /\ lastOp'.calls = <<>>
             /\ lastOp'.outcome = "ok"
             /\ NewStationRequests = {}
             /\ NewDirRequests = {}
             /\ published' = published
             /\ alive'
     /\ \A r \in NewStationRequests :
          \E req \in AnsweredDirRequests : req.cycle = r.cycle
     /\ \A p \in NewlyPublished :
          \E r \in AnsweredStationRequests : r.cycle = p.cycle
     /\ NewDirRequests # {} =>
          /\ TickStep
          /\ \A r \in NewDirRequests : r.cycle = cycles'
    ]_vars

\* the directory request of the first cycle has just failed: nothing is in
\* flight, nothing is published and the recurring timer is pending
C11_Witness ==
  /\ lastOp.op = "dirResponse"
  /\ lastOp.log = "Error retrieving stations"
  /\ cycles = 1
  /\ dirRequests = {}
  /\ stationRequests = {}
  /\ published = {}
  /\ \E tm \in timers : tm.kind = "interval" /\ tm.due > now

(***************************************************************************)
(* C12: a station response without error, with status 200, an object body  *)
(* and a string identifier publishes its own message in the very step of   *)
(* its callback, whatever other requests of the cycle are still in flight; *)
(* the callback touches no other request.                                  *)
(***************************************************************************)
StationSucceeded(req, resp) ==
  /\ ~resp.error
  /\ resp.statusCode = 200
  /\ resp.body.t = "object"
  /\ req.station.t = "string"

C12_PublishOnArrival ==
  [][\A req \in stationRequests, resp \in StationResponses :
       /\ StationSucceeded(req, resp)
       /\ AnsweredStationRequests = {req}
       /\ StationResponse(req, resp)
       => /\ Len(lastOp'.msgs) = 1
          /\ NewlyPublished =
               {[cycle |-> req.cycle, call |-> req.call,
                 station |-> req.station,
                 path |-> toLowerCase(req.station.v)]}
          /\ stationRequests' = stationRequests \ {req}
          /\ dirRequests' = dirRequests
    ]_vars

\* the second station of a cycle has just been published while the request
\* for the first station of the same cycle is still in flight
C12_Witness ==
  /\ lastOp.op = "stationResponse"
  /\ Len(lastOp.msgs) = 1
  /\ \E p \in published, r \in stationRequests :
       /\ r.cycle = p.cycle
       /\ r.call < p.call
       /\ \A q \in published : q = p

(***************************************************************************)
(* C13: at zoom 8, for a latitude in (-85, 85) and a longitude in          *)
(* (-180, 180), the tile of the directory request has integers             *)
(* 0 <= x < 256 and 0 <= y < 256, and the tile of (0, 0) is (128, 128).    *)
(***************************************************************************)
InClaimedRange(pos) ==
  /\ pos.value.latitude > -85
  /\ pos.value.latitude < 85
  /\ pos.value.longitude.deg > -180
  /\ \/ pos.value.longitude.deg < 180
     \/ pos.value.longitude.deg = 180 /\ pos.value.longitude.below > 0

C13_TileInRange ==
  [][\A tm \in timers, pos \in TilePositions :
       InClaimedRange(pos) /\ TimerFire(tm, pos)
       => \A r \in NewDirRequests :
            /\ r.url.x \in 0..(Pow2(Zoom) - 1)
            /\ r.url.y \in 0..(Pow2(Zoom) - 1)
            /\ pos.value = Coord(0, Deg(0)) => r.url.x = 128 /\ r.url.y = 128
    ]_vars

(***************************************************************************)
(* C14: x is the mathematical floor of (longitude + 180) / 360 * 2^zoom    *)
(* for every longitude, also below -180 where the number is negative.      *)
(***************************************************************************)
\* floor((lon + 180) / 360 * n) in exact arithmetic
FloorX(lon, n) ==
  IF lon.below = 0
    THEN ((lon.deg + 180) * n) \div 360
    ELSE ((lon.deg + 180) * n - 1) \div 360

C14_TrueFloor ==
  [][\A tm \in timers, pos \in TilePositions :
       TimerFire(tm, pos)
       => \A r \in NewDirRequests :
            r.url.x = FloorX(pos.value.longitude, Pow2(Zoom))
    ]_vars

(***************************************************************************)
(* C15: a timer callback that finds a position while requests of earlier   *)
(* cycles are still in flight starts its cycle all the same: it issues the *)
(* directory request of the new cycle and leaves the requests in flight    *)
(* as they are, so that they are still answered (and published) later.     *)
(***************************************************************************)
C15_CyclesOverlap ==
  [][\A tm \in timers, pos \in UsablePositions :
       /\ dirRequests # {} \/ stationRequests # {}
       /\ TimerFire(tm, pos)
       => /\ \E r \in NewDirRequests :
               /\ r.cycle = cycles'
               /\ \A q \in dirRequests \cup stationRequests : q.cycle < r.cycle
          /\ dirRequests \subseteq dirRequests'
          /\ stationRequests' = stationRequests
          /\ published' = published
    ]_vars

\* requests of two cycles are in flight at once, and a station of the first
\* cycle has just been published after the second cycle started
C15_Witness ==
  /\ cycles = 2
  /\ lastOp.op = "stationResponse"
  /\ Len(lastOp.msgs) = 1
  /\ \E p \in published : p.cycle = 1 /\ published = {p}
  /\ \E r1 \in stationRequests : r1.cycle = 1
  /\ \E r2 \in dirRequests : r2.cycle = 2

(***************************************************************************)
(* C16: excludedStations is assigned by plugin.start only: every step that *)
(* is not a call of plugin.start leaves it unchanged, a call of            *)
(* plugin.start sets it to the parsed option, and from the first start on  *)
(* it is an array of strings.                                              *)
(***************************************************************************)
StartStep == starts' = starts + 1

C16_ExclusionSetReadOnly ==
  [][/\ ~StartStep => excludedStations' = excludedStations
     /\ StartStep =>
          \E excludeList \in ExcludeLists :
            excludedStations' = ParseExcludeList(excludeList)
     /\ starts > 0 =>
          /\ excludedStations.t = "array"
          /\ \A i \in DOMAIN excludedStations.v :
               excludedStations.v[i].t = "string"
    ]_vars

\* after one start with the list "A": a stop, two cycles and a publish later
\* the exclusion list is still the one the start parsed
C16_Witness ==
  /\ starts = 1
  /\ stopped
  /\ cycles = 2
  /\ published # {}
  /\ lastOp.op = "stationResponse"
  /\ excludedStations = Arr(<<Str(<<"A">>)>>)

(***************************************************************************)
(* C17: a publish for station s happens only in the callback of one        *)
(* station request for s whose response has no transport error and status  *)
(* 200, and that callback publishes once; a station request for s is       *)
(* issued only in the callback of the directory request of its cycle,      *)
(* whose response has no transport error, status 200 and s in its listing  *)
(* (only a string is ever published);                                      *)
(* a directory request is issued only by a timer callback that found a     *)
(* position.  A request is answered once: what is published or in flight   *)
(* belongs to a cycle that has started and whose earlier stage is over.    *)
(***************************************************************************)
CausalOrder ==
  /\ \A r \in dirRequests : r.cycle \in 1..cycles
  /\ \A r \in stationRequests :
       /\ r.cycle \in 1..cycles
       /\ \A d \in dirRequests : d.cycle # r.cycle
  /\ \A p \in published :
       /\ p.cycle \in 1..cycles
       /\ p.station.t = "string"
       /\ \A d \in dirRequests : d.cycle # p.cycle
       /\ \A r \in stationRequests : r.cycle # p.cycle \/ r.call # p.call

C17_CausalHistory ==
  [][/\ NewlyPublished # {} =>
          /\ Cardinality(NewlyPublished) = 1
          /\ Len(lastOp'.msgs) = 1
          /\ \E req \in stationRequests :
               /\ AnsweredStationRequests = {req}
               /\ \A p \in NewlyPublished :
                    /\ p.cycle = req.cycle
                    /\ p.call = req.call
                    /\ p.station = req.station
               /\ \A resp \in StationResponses :
                    StationResponse(req, resp) =>
                      ~resp.error /\ resp.statusCode = 200
     /\ NewStationRequests # {} =>
          \E req \in dirRequests :
            /\ AnsweredDirRequests = {req}
            /\ \A resp \in DirResponses :
                 DirResponse(req, resp) =>
                   /\ ~resp.error
                   /\ resp.statusCode = 200
                   /\ \A r \in NewStationRequests :
                        /\ r.cycle = req.cycle
                        /\ r.station.t = "string" =>
                             \E i \in DOMAIN resp.body.data.v :
                               resp.body.data.v[i] = r.station
     /\ NewDirRequests # {} =>
          /\ Cardinality(NewDirRequests) = 1
          /\ \A r \in NewDirRequests : r.cycle = cycles'
          /\ \E tm \in timers, pos \in UsablePositions : TimerFire(tm, pos)
     /\ CausalOrder'
    ]_vars

\* a station of the second cycle has just been published: its request, the
\* directory request of its cycle and every request of the cycle before are
\* answered
C17_Witness ==
  /\ lastOp.op = "stationResponse"
  /\ Len(lastOp.msgs) = 1
  /\ cycles = 2
  /\ dirRequests = {}
  /\ stationRequests = {}
  /\ \E p \in published : p.cycle = 2 /\ published = {p}

(***************************************************************************)
(* C18: a call of plugin.start that follows plugin.stop leaves at most one *)
(* warm-up timer and at most one recurring timer pending.                  *)
(***************************************************************************)
Pending(kind) == {tm \in timers : tm.kind = kind}

C18_OneTimerPair ==
  [][stopped /\ StartStep =>
       /\ Cardinality(Pending("timeout")') <= 1
       /\ Cardinality(Pending("interval")') <= 1
    ]_vars

====
